---- MODULE Spec2Model ----
(***************************************************************************)
(* Model of torch_glow/src/Registration.cpp: the process-wide registry of  *)
(* compiled graph runners (getGraphRunnerMapSize, getGraphRunnerForKey,    *)
(* setGraphRunnerForKey, removeGraphRunnerForKey), the key resolution made *)
(* when the JIT asks registerGlowOp's operator for an Operation, and the   *)
(* operation body that wraps each runner call with the save / restore of   *)
(* the SIGINT and SIGTERM handlers.                                        *)
(*                                                                         *)
(* Every thread is a host thread.  A step of the model is one atomic step  *)
(* of the code: a call being made (the thread then blocks on               *)
(* runnerMapMutex), the lock being taken, the work done while holding it,  *)
(* one signal() call, the runner call, the final throw or return.          *)
(*                                                                         *)
(* A call's arguments and locals live from the step that makes the call to *)
(* the step that returns; that step leaves what it returned in `last`,     *)
(* which holds the return made by the latest step, if it made one.         *)
(*                                                                         *)
(* The definitions marked "faulty variant" are not part of the model: each *)
(* is the definition that follows it with a plausible bug, which the       *)
(* property it is paired with must reject.                                 *)
(***************************************************************************)
EXTENDS Naturals, FiniteSets

\* ---------------------------------------------------------------- bounds
NumThreads == 2
MaxBuilds == 3

\* ------------------------------------------------------------- constants
Threads == 1 .. NumThreads
NoThread == 0

\* The node's structural key (the bytes of its subgraph block pointer) and
\* its symbolic key (node->kind().toQualString()).
KeyStr == "keyStr"
QualString == "glow::FusionGroup"
Keys == {KeyStr, QualString}
NoKey == "none"

\* Runners are identified by the order of their construction; nullptr is 0.
Runners == 1 .. MaxBuilds
Null == 0

\* Values of a sighandler_t.  NullHandler is the nullptr the locals start
\* with, SigErr the value signal() returns on failure.
SigDfl == "SIG_DFL"
SigIgn == "SIG_IGN"
SigErr == "SIG_ERR"
NullHandler == "nullptr"
PyIntHandler == "pyIntHandler"
PyTermHandler == "pyTermHandler"
IntHandlers == {SigDfl, SigIgn, PyIntHandler}
TermHandlers == {SigDfl, PyTermHandler}

VARIABLES
    map,          \* preloadedGraphRunners_: a function from the present keys
    writer,       \* the thread holding runnerMapMutex exclusively, or NoThread
    readers,      \* the threads holding runnerMapMutex shared
    crashed,      \* CHECK(ret.second) failed: the process aborted, every
                  \* thread is at "aborted"
    sigInt,       \* the process's SIGINT handler
    sigTerm,      \* the process's SIGTERM handler
    overrides,    \* signalHandlerOverridesEnabled()
    hostInt,      \* the SIGINT handler the host installed before any
                  \* Operation was invoked
    hostTerm,     \* the same for SIGTERM
    pc,           \* where each thread is
    op,           \* the host-level call each thread is in
    key,          \* the key argument of the registry call in progress
    operations,   \* the Operations the operator has returned to the JIT, each
                  \* known by the runner it captured
    graphRunner,  \* the graphRunner captured by the Operation the thread is
                  \* invoking, nullptr when it invokes none
    oldInt,       \* oldSigIntHandler
    oldTerm,      \* oldSigTermHandler
    err,          \* err: TRUE when non-empty
    preCompile,   \* getSettings().preCompilePyTorchModule as read
    called,       \* the capability being called: "run", "runOnly", "none"
    invoked,      \* the runner whose capability is being called, or nullptr
    runCalls,     \* how many runner calls the invocation has made
    nextRunner,   \* the identity the next constructed runner gets
    built,        \* per key, the runners built for it since its last erasure
    thrown,       \* per key, whether a builder called for it has thrown
    seen,         \* map's entry for the call's key when the call was made,
                  \* nullptr once the key has been erased
    valid,        \* the call's key has not been erased since the call was made
    entryInt,     \* SIGINT handler when the invocation started, nullptr once
                  \* another invocation has run during this one
    entryTerm,    \* the same for SIGTERM
    last          \* the return made by the latest step

regVars == <<map, writer, readers, crashed>>
sigVars == <<sigInt, sigTerm>>
hostVars == <<overrides, hostInt, hostTerm>>
opVars == <<operations, graphRunner>>
callVars == <<op, key, seen, valid>>
invVars == <<oldInt, oldTerm, err, preCompile, called, invoked, runCalls,
             entryInt, entryTerm>>
histVars == <<nextRunner, built, thrown>>
vars == <<map, writer, readers, crashed, sigInt, sigTerm, overrides, hostInt,
          hostTerm, pc, op, key, operations, graphRunner, oldInt, oldTerm, err,
          preCompile, called, invoked, runCalls, nextRunner, built, thrown,
          seen, valid, entryInt, entryTerm, last>>

\* ---------------------------------------------------------------- helpers
\* preloadedRunners.find(key) != end()
Present(m, k) == k \in DOMAIN m

\* Faulty variant: the find() result is tested the wrong way round.
LookupEnd(m, k) == Null

\* it->second, or nullptr at end()
Lookup(m, k) == IF Present(m, k) THEN m[k] ELSE Null

\* m.size()
MapSize(m) == Cardinality(DOMAIN m)

\* Faulty variant: the emplace is left out.
EmplaceNothing(m, k, r) == m

\* preloadedRunners.emplace(key, runner): inserts only when the key is absent
Emplace(m, k, r) ==
    IF Present(m, k) THEN m
    ELSE [x \in DOMAIN m \cup {k} |-> IF x = k THEN r ELSE m[x]]

\* Faulty variant: clear() in place of erase(key).
EraseAll(m, k) == << >>

\* preloadedRunners.erase(key)
Erase(m, k) == [x \in DOMAIN m \ {k} |-> m[x]]

\* Faulty variant: the readers do not wait for the lock.
LockSharedAlways == TRUE

\* std::shared_lock on runnerMapMutex can be taken
CanLockShared == writer = NoThread

\* Faulty variant: the writers do not wait for the lock.
LockNotExclusive == TRUE

\* std::unique_lock on runnerMapMutex can be taken
CanLockUnique == writer = NoThread /\ readers = {}

\* Faulty variant: a saved SIG_IGN is not restored either.
ShouldRestoreSkipIgnore(old) ==
    old # NullHandler /\ old # SigErr /\ old # SigDfl /\ old # SigIgn

\* Faulty variant: the nullptr test is left out of the guard.
ShouldRestoreNull(old) == old # SigErr /\ old # SigDfl

\* Faulty variant: a saved SIG_DFL is restored as well.
ShouldRestoreDefault(old) == old # NullHandler /\ old # SigErr

\* The restore guard: old != nullptr && old != SIG_ERR && old != SIG_DFL
ShouldRestore(old) == old # NullHandler /\ old # SigErr /\ old # SigDfl

\* Faulty variant: run is called whatever the settings say.
CapabilityRun(flag) == "run"

\* The capability the settings select.
Capability(flag) == IF flag THEN "runOnly" ELSE "run"

InvokePcs == {"inv_sigterm", "inv_call", "inv_running", "inv_restoreInt",
              "inv_restoreTerm", "inv_exit"}

Invoking(t) == pc[t] \in InvokePcs

\* Where a thread is while it holds runnerMapMutex: shared (the scope of the
\* std::shared_lock) and exclusive (the scope of the std::unique_lock, the
\* builder call included).
ReaderPcs == {"size_cs", "get_cs", "res1_cs", "res2_cs"}
WriterPcs == {"set_cs", "set_build", "rm_cs"}

\* The key whose erasure a call is sensitive to: a key resolution's is the
\* structural key, whichever lookup it is in.
Watched(t) == IF op[t] = "resolve" THEN KeyStr ELSE key[t]

\* A call in flight that may still run a builder.
MayBuild(t) == op[t] \in {"set", "resolve"}

\* The builder budget: runners built so far plus the calls that may build.
BuildBudget ==
    (nextRunner - 1) + Cardinality({t \in Threads : MayBuild(t)}) < MaxBuilds

\* What `last` holds after a step that returns nothing.
NoReturn ==
    [thread |-> NoThread, op |-> "none", key |-> KeyStr, ret |-> Null,
     ok |-> FALSE, via |-> "none", seen |-> Null, valid |-> FALSE,
     err |-> FALSE, runCalls |-> 0, entryInt |-> NullHandler,
     entryTerm |-> NullHandler]

\* The return of registry call or key resolution `o` by thread t: r is the
\* runner or the size returned, b the bool, v the branch that returned.
Returned(t, o, r, b, v) ==
    [NoReturn EXCEPT !.thread = t, !.op = o, !.key = key[t], !.ret = r,
                     !.ok = b, !.via = v, !.seen = seen[t],
                     !.valid = valid[t]]

\* ------------------------------------------------------------------- Init
Init ==
    /\ map = << >>
    /\ writer = NoThread
    /\ readers = {}
    /\ crashed = FALSE
    /\ sigInt \in IntHandlers
    /\ sigTerm \in TermHandlers
    /\ overrides \in BOOLEAN
    /\ hostInt = sigInt
    /\ hostTerm = sigTerm
    /\ pc = [t \in Threads |-> "idle"]
    /\ op = [t \in Threads |-> "none"]
    /\ key = [t \in Threads |-> KeyStr]
    /\ operations = {}
    /\ graphRunner = [t \in Threads |-> Null]
    /\ oldInt = [t \in Threads |-> NullHandler]
    /\ oldTerm = [t \in Threads |-> NullHandler]
    /\ err = [t \in Threads |-> FALSE]
    /\ preCompile = [t \in Threads |-> FALSE]
    /\ called = [t \in Threads |-> "none"]
    /\ invoked = [t \in Threads |-> Null]
    /\ runCalls = [t \in Threads |-> 0]
    /\ nextRunner = 1
    /\ built = [k \in Keys |-> {}]
    /\ thrown = [k \in Keys |-> FALSE]
    /\ seen = [t \in Threads |-> Null]
    /\ valid = [t \in Threads |-> FALSE]
    /\ entryInt = [t \in Threads |-> NullHandler]
    /\ entryTerm = [t \in Threads |-> NullHandler]
    /\ last = NoReturn

\* ---------------------------------------------- making and leaving a call
\* The call is made: its arguments are bound and the thread goes on to block
\* on runnerMapMutex.  seen records what the registry held for key w at that
\* moment, valid that w has not been erased since; a call that is given
\* NoKey for w records neither.
Enter(t, o, k, w, p) ==
    /\ pc' = [pc EXCEPT ![t] = p]
    /\ op' = [op EXCEPT ![t] = o]
    /\ key' = [key EXCEPT ![t] = k]
    /\ seen' = [seen EXCEPT ![t] = IF w \in DOMAIN map THEN map[w] ELSE Null]
    /\ valid' = [valid EXCEPT ![t] = w # NoKey]
    /\ last' = NoReturn

\* The call returns to the host: its arguments and locals are gone.
Leave(t) ==
    /\ pc' = [pc EXCEPT ![t] = "idle"]
    /\ op' = [op EXCEPT ![t] = "none"]
    /\ key' = [key EXCEPT ![t] = KeyStr]
    /\ seen' = [seen EXCEPT ![t] = Null]
    /\ valid' = [valid EXCEPT ![t] = FALSE]

\* -------------------------------------------------- getGraphRunnerMapSize
SizeStart(t) ==
    /\ pc[t] = "idle"
    /\ Enter(t, "size", KeyStr, NoKey, "size_wait")
    /\ UNCHANGED <<regVars, sigVars, hostVars, opVars, invVars, histVars>>

SizeLock(t) ==
    /\ pc[t] = "size_wait"
    /\ CanLockShared
    /\ readers' = readers \cup {t}
    /\ pc' = [pc EXCEPT ![t] = "size_cs"]
    /\ last' = NoReturn
    /\ UNCHANGED <<map, writer, crashed, sigVars, hostVars, callVars,
                   opVars, invVars, histVars>>

SizeReturn(t) ==
    /\ pc[t] = "size_cs"
    /\ last' = Returned(t, "size", MapSize(map), FALSE, "size")
    /\ readers' = readers \ {t}
    /\ Leave(t)
    /\ UNCHANGED <<map, writer, crashed, sigVars, hostVars, opVars,
                   invVars, histVars>>

\* --------------------------------------------------- getGraphRunnerForKey
GetStart(t, k) ==
    /\ pc[t] = "idle"
    /\ Enter(t, "get", k, k, "get_wait")
    /\ UNCHANGED <<regVars, sigVars, hostVars, opVars, invVars, histVars>>

\* The shared lock is taken, by a host call or by either lookup of a key
\* resolution.
GetLock(t) ==
    /\ pc[t] \in {"get_wait", "res1_wait", "res2_wait"}
    /\ CanLockShared
    /\ readers' = readers \cup {t}
    /\ pc' = [pc EXCEPT ![t] = CASE pc[t] = "get_wait" -> "get_cs"
                                 [] pc[t] = "res1_wait" -> "res1_cs"
                                 [] pc[t] = "res2_wait" -> "res2_cs"]
    /\ last' = NoReturn
    /\ UNCHANGED <<map, writer, crashed, sigVars, hostVars, callVars,
                   opVars, invVars, histVars>>

GetReturn(t) ==
    /\ pc[t] = "get_cs"
    /\ last' = Returned(t, "get", Lookup(map, key[t]), FALSE, "get")
    /\ readers' = readers \ {t}
    /\ Leave(t)
    /\ UNCHANGED <<map, writer, crashed, sigVars, hostVars, opVars,
                   invVars, histVars>>

\* --------------------------------------------------- setGraphRunnerForKey
SetStart(t, k) ==
    /\ pc[t] = "idle"
    /\ BuildBudget
    /\ Enter(t, "set", k, k, "set_wait")
    /\ UNCHANGED <<regVars, sigVars, hostVars, opVars, invVars, histVars>>

SetLock(t) ==
    /\ pc[t] = "set_wait"
    /\ CanLockUnique
    /\ writer' = t
    /\ pc' = [pc EXCEPT ![t] = "set_cs"]
    /\ last' = NoReturn
    /\ UNCHANGED <<map, readers, crashed, sigVars, hostVars, callVars,
                   opVars, invVars, histVars>>

\* What the caller does with the runner setGraphRunnerForKey returned: a key
\* resolution captures it in the Operation it returns to the JIT, a host
\* call keeps it to itself.
Captured(t, r) ==
    IF op[t] = "resolve" THEN operations \cup {r} ELSE operations

\* Faulty variant: a present key is given a newly built runner (set, not
\* insert-if-absent).
SetFoundOverwrites(t) ==
    /\ pc[t] = "set_cs"
    /\ Present(map, key[t])
    /\ nextRunner \in Runners
    /\ map' = [map EXCEPT ![key[t]] = nextRunner]
    /\ nextRunner' = nextRunner + 1
    /\ built' = [built EXCEPT ![key[t]] = @ \cup {nextRunner}]
    /\ last' = Returned(t, op[t], nextRunner, FALSE, "built")
    /\ operations' = Captured(t, nextRunner)
    /\ writer' = NoThread
    /\ Leave(t)
    /\ UNCHANGED <<readers, crashed, sigVars, hostVars, graphRunner, invVars,
                   thrown>>

\* The key is present: return it->second, the builder is not called.
SetFound(t) ==
    /\ pc[t] = "set_cs"
    /\ Present(map, key[t])
    /\ last' = Returned(t, op[t], map[key[t]], FALSE, "found")
    /\ operations' = Captured(t, map[key[t]])
    /\ writer' = NoThread
    /\ Leave(t)
    /\ UNCHANGED <<map, readers, crashed, sigVars, hostVars, graphRunner,
                   invVars, histVars>>

\* Faulty variant: the builder is called without the presence test.
SetMissUntested(t) ==
    /\ pc[t] = "set_cs"
    /\ pc' = [pc EXCEPT ![t] = "set_build"]
    /\ last' = NoReturn
    /\ UNCHANGED <<regVars, sigVars, hostVars, callVars, opVars, invVars,
                   histVars>>

\* The key is absent: graphRunnerBuilder() is called, the lock still held.
SetMiss(t) ==
    /\ pc[t] = "set_cs"
    /\ ~Present(map, key[t])
    /\ pc' = [pc EXCEPT ![t] = "set_build"]
    /\ last' = NoReturn
    /\ UNCHANGED <<regVars, sigVars, hostVars, callVars, opVars, invVars,
                   histVars>>

\* Faulty variant: the builder itself calls setGraphRunnerForKey, and waits
\* for the lock its caller holds.
SetBuiltReenters(t) ==
    /\ pc[t] = "set_build"
    /\ pc' = [pc EXCEPT ![t] = "set_wait"]
    /\ last' = NoReturn
    /\ UNCHANGED <<regVars, sigVars, hostVars, callVars, opVars, invVars,
                   histVars>>

\* The builder returns a new runner; emplace, CHECK(ret.second), return it.
\* A failed CHECK aborts the process: no thread takes another step.
SetBuilt(t) ==
    /\ pc[t] = "set_build"
    /\ nextRunner \in Runners
    /\ built' = [built EXCEPT ![key[t]] = @ \cup {nextRunner}]
    /\ nextRunner' = nextRunner + 1
    /\ map' = Emplace(map, key[t], nextRunner)
    /\ IF Present(map, key[t])
       THEN /\ crashed' = TRUE
            /\ pc' = [u \in Threads |-> "aborted"]
            /\ last' = NoReturn
            /\ UNCHANGED <<writer, callVars, operations>>
       ELSE /\ crashed' = FALSE
            /\ last' = Returned(t, op[t], nextRunner, FALSE, "built")
            /\ operations' = Captured(t, nextRunner)
            /\ writer' = NoThread
            /\ Leave(t)
    /\ UNCHANGED <<readers, sigVars, hostVars, graphRunner, invVars, thrown>>

\* Faulty variant: the lock is still held after the exception has left.
HeldAfterThrow(t) == t

\* The holder of runnerMapMutex once an exception has left the scope of the
\* std::unique_lock: the lock's destructor has released it.
Unwound(t) == NoThread

\* The builder throws: no runner is built, the emplace is not reached and
\* the exception leaves setGraphRunnerForKey, and the key resolution if it
\* made the call, for the host to handle.
SetThrows(t) ==
    /\ pc[t] = "set_build"
    /\ thrown' = [thrown EXCEPT ![key[t]] = TRUE]
    /\ last' = Returned(t, op[t], Null, FALSE, "threw")
    /\ writer' = Unwound(t)
    /\ Leave(t)
    /\ UNCHANGED <<map, readers, crashed, sigVars, hostVars, opVars,
                   invVars, nextRunner, built>>

\* ------------------------------------------------ removeGraphRunnerForKey
RemoveStart(t, k) ==
    /\ pc[t] = "idle"
    /\ Enter(t, "remove", k, NoKey, "rm_wait")
    /\ UNCHANGED <<regVars, sigVars, hostVars, opVars, invVars, histVars>>

RemoveLock(t) ==
    /\ pc[t] = "rm_wait"
    /\ CanLockUnique
    /\ writer' = t
    /\ pc' = [pc EXCEPT ![t] = "rm_cs"]
    /\ last' = NoReturn
    /\ UNCHANGED <<map, readers, crashed, sigVars, hostVars, callVars,
                   opVars, invVars, histVars>>

RemoveReturn(t) ==
    /\ pc[t] = "rm_cs"
    /\ last' = Returned(t, "remove", Null, Present(map, key[t]), "remove")
    /\ IF Present(map, key[t])
       THEN /\ map' = Erase(map, key[t])
            /\ built' = [built EXCEPT ![key[t]] = {}]
            /\ valid' = [u \in Threads |-> valid[u] /\ Watched(u) # key[t]]
            /\ seen' = [u \in Threads |->
                          IF Watched(u) # key[t] THEN seen[u] ELSE Null]
       ELSE UNCHANGED <<map, built, valid, seen>>
    /\ writer' = NoThread
    /\ pc' = [pc EXCEPT ![t] = "idle"]
    /\ op' = [op EXCEPT ![t] = "none"]
    /\ key' = [key EXCEPT ![t] = KeyStr]
    /\ UNCHANGED <<readers, crashed, sigVars, hostVars, opVars, invVars,
                   nextRunner, thrown>>

\* ------------------------------------- key resolution (the Operator's lambda)
\* Faulty variant: the symbolic key is looked up first.
SymbolicFirst == QualString

\* 1. the key based on the graph, 2. the key based on the node's symbol,
\* 3. a new runner under the key based on the graph.
FirstLookupKey == KeyStr
SecondLookupKey == QualString

\* Faulty variant: the new runner is inserted under the symbolic key.
InsertSymbolic == QualString

InsertKey == KeyStr

\* The JIT asks for the node's Operation: keyStr is computed and the first
\* getGraphRunnerForKey call is made.  seen and valid are those of the
\* structural key.
ResolveStart(t) ==
    /\ pc[t] = "idle"
    /\ BuildBudget
    /\ Enter(t, "resolve", FirstLookupKey, KeyStr, "res1_wait")
    /\ UNCHANGED <<regVars, sigVars, hostVars, opVars, invVars, histVars>>

\* getGraphRunnerForKey(keyStr) returns; on a miss the symbolic lookup is
\* called, on a hit the Operation is returned.
ResolveStructural(t) ==
    /\ pc[t] = "res1_cs"
    /\ readers' = readers \ {t}
    /\ IF Lookup(map, key[t]) # Null
       THEN /\ operations' = operations \cup {Lookup(map, key[t])}
            /\ last' = Returned(t, "resolve", Lookup(map, key[t]), FALSE,
                                "structural")
            /\ Leave(t)
       ELSE /\ pc' = [pc EXCEPT ![t] = "res2_wait"]
            /\ key' = [key EXCEPT ![t] = SecondLookupKey]
            /\ last' = NoReturn
            /\ UNCHANGED <<operations, op, seen, valid>>
    /\ UNCHANGED <<map, writer, crashed, sigVars, hostVars, graphRunner,
                   invVars, histVars>>

\* getGraphRunnerForKey(kind().toQualString()) returns; on a miss
\* setGraphRunnerForKey(keyStr, builder) is called.
ResolveSymbolic(t) ==
    /\ pc[t] = "res2_cs"
    /\ readers' = readers \ {t}
    /\ IF Lookup(map, key[t]) # Null
       THEN /\ operations' = operations \cup {Lookup(map, key[t])}
            /\ last' = Returned(t, "resolve", Lookup(map, key[t]), FALSE,
                                "symbolic")
            /\ Leave(t)
       ELSE /\ pc' = [pc EXCEPT ![t] = "set_wait"]
            /\ key' = [key EXCEPT ![t] = InsertKey]
            /\ last' = NoReturn
            /\ UNCHANGED <<operations, op, seen, valid>>
    /\ UNCHANGED <<map, writer, crashed, sigVars, hostVars, graphRunner,
                   invVars, histVars>>

\* ------------------------------------------- the operation body (Operation)
\* The Operation is invoked on a stack: the locals are initialised and, when
\* signalHandlerOverridesEnabled(), oldSigIntHandler = signal(SIGINT, SIG_DFL).
\* Any thread may invoke any Operation the JIT holds; graphRunner is the one
\* that Operation captured.  An invocation that starts while others run ends
\* their being alone.
InvokeStart(t) ==
    /\ pc[t] = "idle"
    /\ \E r \in operations : graphRunner' = [graphRunner EXCEPT ![t] = r]
    /\ op' = [op EXCEPT ![t] = "invoke"]
    /\ entryInt' = [u \in Threads |->
                      IF \E v \in Threads \ {t} : Invoking(v) THEN NullHandler
                      ELSE IF u = t THEN sigInt ELSE entryInt[u]]
    /\ entryTerm' = [u \in Threads |->
                       IF \E v \in Threads \ {t} : Invoking(v) THEN NullHandler
                       ELSE IF u = t THEN sigTerm ELSE entryTerm[u]]
    /\ IF overrides
       THEN /\ oldInt' = [oldInt EXCEPT ![t] = sigInt]
            /\ sigInt' = SigDfl
            /\ pc' = [pc EXCEPT ![t] = "inv_sigterm"]
       ELSE /\ pc' = [pc EXCEPT ![t] = "inv_call"]
            /\ UNCHANGED <<oldInt, sigInt>>
    /\ last' = NoReturn
    /\ UNCHANGED <<regVars, sigTerm, hostVars, key, seen, valid, operations,
                   oldTerm, err, preCompile, called, invoked, runCalls,
                   histVars>>

\* oldSigTermHandler = signal(SIGTERM, SIG_DFL)
SaveSigTerm(t) ==
    /\ pc[t] = "inv_sigterm"
    /\ oldTerm' = [oldTerm EXCEPT ![t] = sigTerm]
    /\ sigTerm' = SigDfl
    /\ pc' = [pc EXCEPT ![t] = "inv_call"]
    /\ last' = NoReturn
    /\ UNCHANGED <<regVars, sigInt, hostVars, callVars, opVars, oldInt,
                   err, preCompile, called, invoked, runCalls, entryInt,
                   entryTerm, histVars>>

\* Faulty variant: the body looks the runner up again when it is invoked.
RegisteredRunner(t) == Lookup(map, KeyStr)

\* The runner the body calls: the graphRunner the lambda captured by value.
BoundRunner(t) == graphRunner[t]

\* getSettings().preCompilePyTorchModule is read and runOnly or run called
\* on the captured runner.
CallRunner(t) ==
    /\ pc[t] = "inv_call"
    /\ \E flag \in BOOLEAN :
          /\ preCompile' = [preCompile EXCEPT ![t] = flag]
          /\ called' = [called EXCEPT ![t] = Capability(flag)]
    /\ invoked' = [invoked EXCEPT ![t] = BoundRunner(t)]
    /\ runCalls' = [runCalls EXCEPT ![t] = @ + 1]
    /\ pc' = [pc EXCEPT ![t] = "inv_running"]
    /\ last' = NoReturn
    /\ UNCHANGED <<regVars, sigVars, hostVars, callVars, opVars, oldInt,
                   oldTerm, err, entryInt, entryTerm, histVars>>

\* The runner call returns its Error, empty or not.
RunnerReturns(t) ==
    /\ pc[t] = "inv_running"
    /\ \E e \in BOOLEAN : err' = [err EXCEPT ![t] = e]
    /\ called' = [called EXCEPT ![t] = "none"]
    /\ invoked' = [invoked EXCEPT ![t] = Null]
    /\ preCompile' = [preCompile EXCEPT ![t] = FALSE]
    /\ pc' = [pc EXCEPT ![t] = "inv_restoreInt"]
    /\ last' = NoReturn
    /\ UNCHANGED <<regVars, sigVars, hostVars, callVars, opVars, oldInt,
                   oldTerm, runCalls, entryInt, entryTerm, histVars>>

\* if (oldSigIntHandler ...) signal(SIGINT, oldSigIntHandler)
RestoreSigInt(t) ==
    /\ pc[t] = "inv_restoreInt"
    /\ sigInt' = IF ShouldRestore(oldInt[t]) THEN oldInt[t] ELSE sigInt
    /\ pc' = [pc EXCEPT ![t] = "inv_restoreTerm"]
    /\ last' = NoReturn
    /\ UNCHANGED <<regVars, sigTerm, hostVars, callVars, opVars, invVars,
                   histVars>>

\* if (oldSigTermHandler ...) signal(SIGTERM, oldSigTermHandler)
RestoreSigTerm(t) ==
    /\ pc[t] = "inv_restoreTerm"
    /\ sigTerm' = IF ShouldRestore(oldTerm[t]) THEN oldTerm[t] ELSE sigTerm
    /\ pc' = [pc EXCEPT ![t] = "inv_exit"]
    /\ last' = NoReturn
    /\ UNCHANGED <<regVars, sigInt, hostVars, callVars, opVars, invVars,
                   histVars>>

\* Faulty variant: the error is dropped.
ThrowsNever(e) == FALSE

\* Whether the invocation ends by throwing: static_cast<bool>(err)
Throws(e) == e

\* if (static_cast<bool>(err)) throw std::invalid_argument(...), else return.
\* The locals go out of scope.
InvokeExit(t) ==
    /\ pc[t] = "inv_exit"
    /\ last' = [NoReturn EXCEPT !.thread = t, !.op = "invoke",
                                !.ret = graphRunner[t],
                                !.via = IF Throws(err[t]) THEN "thrown"
                                        ELSE "returned",
                                !.err = err[t], !.runCalls = runCalls[t],
                                !.entryInt = entryInt[t],
                                !.entryTerm = entryTerm[t]]
    /\ oldInt' = [oldInt EXCEPT ![t] = NullHandler]
    /\ oldTerm' = [oldTerm EXCEPT ![t] = NullHandler]
    /\ err' = [err EXCEPT ![t] = FALSE]
    /\ runCalls' = [runCalls EXCEPT ![t] = 0]
    /\ entryInt' = [entryInt EXCEPT ![t] = NullHandler]
    /\ entryTerm' = [entryTerm EXCEPT ![t] = NullHandler]
    /\ graphRunner' = [graphRunner EXCEPT ![t] = Null]
    /\ pc' = [pc EXCEPT ![t] = "idle"]
    /\ op' = [op EXCEPT ![t] = "none"]
    /\ UNCHANGED <<regVars, sigVars, hostVars, key, seen, valid, operations,
                   preCompile, called, invoked, histVars>>

\* ------------------------------------------------------------------- Next
\* The registry calls a host thread makes through the management surface.
RegistryCall(t) ==
    \/ SizeStart(t)
    \/ SizeLock(t)
    \/ SizeReturn(t)
    \/ \E k \in Keys : GetStart(t, k)
    \/ GetReturn(t)
    \/ \E k \in Keys : SetStart(t, k)
    \/ \E k \in Keys : RemoveStart(t, k)
    \/ RemoveLock(t)
    \/ RemoveReturn(t)

\* The key resolution of the node, with the registry calls it makes.
Resolution(t) ==
    \/ ResolveStart(t)
    \/ GetLock(t)
    \/ ResolveStructural(t)
    \/ ResolveSymbolic(t)
    \/ SetLock(t)
    \/ SetFound(t)
    \/ SetMiss(t)
    \/ SetBuilt(t)

\* The invocation of an Operation a key resolution returned.
Invocation(t) ==
    \/ InvokeStart(t)
    \/ SaveSigTerm(t)
    \/ CallRunner(t)
    \/ RunnerReturns(t)
    \/ RestoreSigInt(t)
    \/ RestoreSigTerm(t)
    \/ InvokeExit(t)

\* The registry under the host's calls through the management surface.  No
\* step reads or writes the signal handlers, which stay as the process
\* started them.
RegistryInit == Init /\ sigInt = SigDfl /\ sigTerm = SigDfl /\ ~overrides

RegistryNext ==
    \E t \in Threads :
       \/ RegistryCall(t)
       \/ GetLock(t)
       \/ SetLock(t)
       \/ SetFound(t)
       \/ SetMiss(t)
       \/ SetBuilt(t)

RegistrySpec == RegistryInit /\ [][RegistryNext]_vars

\* The registry under key resolutions, while the host installs and removes
\* runners.
ResolveNext ==
    \E t \in Threads :
       \/ Resolution(t)
       \/ \E k \in Keys : SetStart(t, k)
       \/ \E k \in Keys : RemoveStart(t, k)
       \/ RemoveLock(t)
       \/ RemoveReturn(t)

ResolveSpec == RegistryInit /\ [][ResolveNext]_vars

\* The operators: key resolutions and the invocations of their Operations.
ExecNext == \E t \in Threads : Resolution(t) \/ Invocation(t)

ExecSpec == Init /\ [][ExecNext]_vars

\* Ahead-of-time installation: the host installs a runner under the node's
\* symbolic name while the JIT resolves the node.  Nothing is removed.
InstallNext ==
    \E t \in Threads : Resolution(t) \/ SetStart(t, QualString)

InstallSpec == RegistryInit /\ [][InstallNext]_vars

\* Key resolutions and host setGraphRunnerForKey calls with builders that
\* may fail.
BuilderFailNext ==
    \E t \in Threads :
       \/ Resolution(t)
       \/ \E k \in Keys : SetStart(t, k)
       \/ SetThrows(t)

BuilderFailSpec == RegistryInit /\ [][BuilderFailNext]_vars

\* The host's registry calls, all on one key, under fair scheduling.  A
\* thread that has made a call and can go on does go on: it is given the
\* processor, and a lock that stays available to it is taken.
\* std::shared_timed_mutex promises no more: a waiting thread need not be
\* preferred to the threads that arrive after it.
CallStart(t) ==
    \/ SizeStart(t)
    \/ GetStart(t, KeyStr)
    \/ SetStart(t, KeyStr)
    \/ RemoveStart(t, KeyStr)

CallStep(t) ==
    \/ SizeLock(t)
    \/ SizeReturn(t)
    \/ GetLock(t)
    \/ GetReturn(t)
    \/ SetLock(t)
    \/ SetFound(t)
    \/ SetMiss(t)
    \/ SetBuilt(t)
    \/ RemoveLock(t)
    \/ RemoveReturn(t)

FairNext == \E t \in Threads : CallStart(t) \/ CallStep(t)

FairSpec ==
    /\ RegistryInit
    /\ [][FairNext]_vars
    /\ \A t \in Threads : WF_vars(CallStep(t))

\* Operations that outlive their registry entries: the node is resolved,
\* the Operations are invoked and the host removes the structural key, so
\* that a later resolution installs another runner.  The Python handlers
\* are installed and overriding is disabled: the invocations make no
\* signal() call.
BindingInit ==
    Init /\ sigInt = PyIntHandler /\ sigTerm = PyTermHandler /\ ~overrides

BindingNext ==
    \E t \in Threads :
       \/ Resolution(t)
       \/ InvokeStart(t)
       \/ CallRunner(t)
       \/ RunnerReturns(t)
       \/ RestoreSigInt(t)
       \/ RestoreSigTerm(t)
       \/ InvokeExit(t)
       \/ RemoveStart(t, KeyStr)
       \/ RemoveLock(t)
       \/ RemoveReturn(t)

BindingSpec == BindingInit /\ [][BindingNext]_vars

\* The whole program.
Next ==
    \E t \in Threads :
       RegistryCall(t) \/ Resolution(t) \/ SetThrows(t) \/ Invocation(t)

Spec == Init /\ [][Next]_vars

\* ================================================================= claims
\* C1 (at-most-one-build).  Between two erasures of a key its builder runs at
\* most once, and every setGraphRunnerForKey call on the key that returns,
\* host call or key resolution, whichever builder it was given, returns the
\* runner that one execution built: exactly one builder has run for the key
\* and all the callers hold the same handle.  CHECK(ret.second) never fails.
AtMostOneBuild ==
    /\ ~crashed
    /\ \A k \in Keys : Cardinality(built[k]) <= 1
    /\ last.via \in {"found", "built"} => built[last.key] = {last.ret}

\* A host call made while the key was absent, which was not erased since,
\* returns the runner a concurrent call built.
AtMostOneBuildWitness ==
    /\ last.op = "set"
    /\ last.via = "found"
    /\ last.seen = Null
    /\ last.valid
    /\ nextRunner = 2

\* C2 (entry immutability).  No step changes the runner of a key present
\* before and after it, and a present key stops being present only by the
\* step of a removeGraphRunnerForKey on that key which returns true.
EntryImmutable ==
    [][\A k \in Keys :
          Present(map, k) =>
             IF Present(map', k)
             THEN map'[k] = map[k]
             ELSE last'.op = "remove" /\ last'.ok /\ last'.key = k]_vars

\* The setGraphRunnerForKey of a key resolution has found the key present,
\* inserted by a racing call, and left the entry as it was.
EntryImmutableWitness ==
    /\ last.op = "resolve"
    /\ last.via = "found"
    /\ Present(map, last.key)
    /\ map[last.key] = last.ret

\* C3 (visibility ordering).  A getGraphRunnerForKey call made when the key
\* held runner R (a setGraphRunnerForKey had returned R), the key not erased
\* between the call and its return, returns R.
VisibleAfterSet ==
    (last.op = "get" /\ last.valid /\ last.seen # Null) => last.ret = last.seen

VisibleAfterSetWitness ==
    /\ last.op = "get"
    /\ last.valid
    /\ last.seen # Null
    /\ last.ret = last.seen
    /\ last.key = QualString

\* C4 (removal correctness).  The step in which removeGraphRunnerForKey(k)
\* acts under its write lock returns whether k was present; afterwards k is
\* absent and every other key has the runner it had; when k was absent the
\* map, and so its size, is unchanged.
RemovalCorrect ==
    [][\A t \in Threads :
          (pc[t] = "rm_cs" /\ pc'[t] = "idle") =>
             /\ last'.op = "remove"
             /\ last'.ok = Present(map, key[t])
             /\ Lookup(map', key[t]) = Null
             /\ \A k \in Keys \ {key[t]} : Lookup(map', k) = Lookup(map, k)
             /\ ~Present(map, key[t]) =>
                   (map' = map /\ MapSize(map') = MapSize(map))]_vars

\* A removal has returned true, its key is gone and the other key is still
\* there.
RemovalCorrectWitness ==
    /\ last.op = "remove"
    /\ last.ok
    /\ ~Present(map, last.key)
    /\ MapSize(map) = 1

\* C5 (idempotent install).  A host setGraphRunnerForKey call made when the
\* key held runner R (an earlier call had returned R), the key not erased
\* since, never calls its builder, and the step in which it returns returns
\* R and leaves the map and the count of runners built as they were.
IdempotentInstall ==
    [][\A t \in Threads :
          (op[t] = "set" /\ valid[t] /\ seen[t] # Null) =>
             /\ pc'[t] # "set_build"
             /\ (pc[t] = "set_cs" /\ pc'[t] = "idle") =>
                   /\ last'.ret = seen[t]
                   /\ last'.via = "found"
                   /\ map' = map
                   /\ nextRunner' = nextRunner]_vars

IdempotentInstallWitness ==
    /\ last.op = "set"
    /\ last.via = "found"
    /\ last.valid
    /\ last.seen # Null
    /\ last.ret = last.seen

\* C6 (key precedence).  A key resolution started when the structural key
\* held runner S, the key not erased during it, returns S from the
\* structural lookup, whatever the symbolic key holds.
StructuralFirst ==
    (last.op = "resolve" /\ last.valid /\ last.seen # Null) =>
        (last.ret = last.seen /\ last.via = "structural")

\* Such a resolution has returned S while the symbolic key holds another
\* runner.
StructuralFirstWitness ==
    /\ last.op = "resolve"
    /\ last.valid
    /\ last.seen # Null
    /\ last.ret = last.seen
    /\ Present(map, QualString)
    /\ map[QualString] # last.ret

\* C7 (handler restoration under failure).  With overriding enabled, an
\* invocation during which no other invocation ran has, once its restores
\* are done and before it throws or returns, and again when it has thrown or
\* returned, the SIGINT and SIGTERM handlers that were installed when it
\* started, whether the runner call failed or not.
HandlersRestored ==
    /\ \A t \in Threads :
          (overrides /\ pc[t] = "inv_exit" /\ entryInt[t] # NullHandler) =>
             (sigInt = entryInt[t] /\ sigTerm = entryTerm[t])
    /\ (overrides /\ last.op = "invoke" /\ last.entryInt # NullHandler) =>
          (sigInt = last.entryInt /\ sigTerm = last.entryTerm)

\* A failed invocation has thrown and the host's handlers are back.
HandlersRestoredWitness ==
    /\ overrides
    /\ last.op = "invoke"
    /\ last.via = "thrown"
    /\ last.entryInt = SigIgn
    /\ last.entryTerm = PyTermHandler
    /\ sigInt = SigIgn
    /\ sigTerm = PyTermHandler

\* C8 (failure translation without retry).  No invocation calls the runner
\* more than once; an invocation that ends has called it exactly once, and
\* has thrown if and only if that call returned a non-empty error.
ThrowsIffError ==
    /\ \A t \in Threads : runCalls[t] <= 1
    /\ \A t \in Threads : pc[t] = "inv_exit" => runCalls[t] = 1
    /\ last.op = "invoke" =>
          /\ last.runCalls = 1
          /\ (last.via = "thrown") = last.err
          /\ last.via \in {"thrown", "returned"}

ThrowsIffErrorWitness ==
    /\ last.op = "invoke"
    /\ last.via = "thrown"
    /\ last.err
    /\ last.runCalls = 1

\* C9 (default handlers for the whole call).  With overriding enabled, while
\* any invocation is inside its runner call both handlers are SIG_DFL.
DefaultDuringCall ==
    \A t \in Threads :
       (overrides /\ pc[t] = "inv_running") =>
          (sigInt = SigDfl /\ sigTerm = SigDfl)

\* C10 (size accounting).  The map starts empty; getGraphRunnerMapSize
\* returns the number of keys present; the step that emplaces raises the
\* size by one, the step that erases a present key lowers it by one, and no
\* other step (a setGraphRunnerForKey that finds the key, a lookup, a
\* removal of an absent key) changes it.
SizeAccounting ==
    /\ MapSize(map) = 0
    /\ [][/\ \A t \in Threads :
               (pc[t] = "size_cs" /\ pc'[t] = "idle") =>
                  last'.ret = Cardinality({k \in Keys : Lookup(map, k) # Null})
          /\ MapSize(map') =
                IF \E t \in Threads : pc[t] = "set_build" /\ pc'[t] = "idle"
                THEN MapSize(map) + 1
                ELSE IF \E t \in Threads :
                           /\ pc[t] = "rm_cs"
                           /\ pc'[t] = "idle"
                           /\ Present(map, key[t])
                     THEN MapSize(map) - 1
                     ELSE MapSize(map)]_vars

SizeAccountingWitness ==
    /\ last.op = "size"
    /\ last.ret = 2
    /\ MapSize(map) = 2

\* C11 (lazy compilation gate).  A key resolution is in its builder only
\* while the structural key is absent and no runner has been built for it
\* since its last erasure, and a key resolution that missed both lookups
\* returns from setGraphRunnerForKey the one runner built for the structural
\* key, which the map holds: the resolutions that lost the race return the
\* inserted runner and do not run their builders.
LazyCompilationGate ==
    /\ \A t \in Threads :
          (op[t] = "resolve" /\ pc[t] = "set_build") =>
             (built[KeyStr] = {} /\ ~Present(map, KeyStr))
    /\ (last.op = "resolve" /\ last.via \in {"found", "built"}) =>
          /\ built[KeyStr] = {last.ret}
          /\ Lookup(map, KeyStr) = last.ret

\* A resolution started on a registry holding neither key has lost the
\* race; one runner was built and every Operation returned captured it.
LazyCompilationGateWitness ==
    /\ last.op = "resolve"
    /\ last.via = "found"
    /\ last.seen = Null
    /\ last.valid
    /\ ~Present(map, QualString)
    /\ nextRunner = 2
    /\ operations = {last.ret}

\* C12 (lock discipline).  A thread is in a writer's critical section, the
\* builder call included, exactly while it holds the lock exclusively, and
\* then no thread holds it shared and no other thread is in any critical
\* section; a thread is in a reader's critical section exactly while it
\* holds the lock shared; the map is changed only by the step of a thread
\* in a writer's critical section.
LockDiscipline ==
    /\ [](/\ \A t \in Threads : (pc[t] \in WriterPcs) <=> (writer = t)
          /\ \A t \in Threads : (pc[t] \in ReaderPcs) <=> (t \in readers)
          /\ writer # NoThread =>
                /\ readers = {}
                /\ \A u \in Threads \ {writer} :
                      pc[u] \notin WriterPcs \cup ReaderPcs)
    /\ [][map' # map =>
             \E t \in Threads :
                writer = t /\ pc[t] \in WriterPcs /\ pc'[t] # pc[t]]_vars

\* A getGraphRunnerMapSize and a getGraphRunnerForKey are in their critical
\* sections at the same time.
LockDisciplineWitness ==
    \E t, u \in readers :
       /\ t # u
       /\ pc[t] = "size_cs"
       /\ pc[u] = "get_cs"
       /\ writer = NoThread

\* C13 (resolution branches).  A key resolution returns from exactly one of
\* the structural lookup, the symbolic lookup and setGraphRunnerForKey; it
\* reaches the symbolic lookup only from a structural miss, the
\* setGraphRunnerForKey call only from a symbolic miss and the builder only
\* from inside that call; it looks up and inserts under the structural key
\* and only looks up the symbolic one; none of its steps changes the
\* symbolic entry, and only the step that ends its builder changes the map.
ResolutionBranches ==
    /\ [](/\ last.op = "resolve" =>
                /\ last.via \in {"structural", "symbolic", "found", "built"}
                /\ last.key = IF last.via = "symbolic" THEN QualString
                              ELSE KeyStr
          /\ \A t \in Threads :
                op[t] = "resolve" =>
                   key[t] = IF pc[t] \in {"res2_wait", "res2_cs"}
                            THEN QualString
                            ELSE KeyStr)
    /\ [][\A t \in Threads :
             (op[t] = "resolve" /\ pc'[t] # pc[t]) =>
                /\ pc'[t] = "res1_cs" => pc[t] = "res1_wait"
                /\ pc'[t] = "res2_wait" =>
                      (pc[t] = "res1_cs" /\ Lookup(map, KeyStr) = Null)
                /\ pc'[t] = "res2_cs" => pc[t] = "res2_wait"
                /\ pc'[t] = "set_wait" =>
                      (pc[t] = "res2_cs" /\ Lookup(map, QualString) = Null)
                /\ pc'[t] = "set_cs" => pc[t] = "set_wait"
                /\ pc'[t] = "set_build" => pc[t] = "set_cs"
                /\ Lookup(map', QualString) = Lookup(map, QualString)
                /\ pc[t] # "set_build" => map' = map]_vars

\* A resolution has returned the symbolic runner and the registry still has
\* no structural entry.
ResolutionBranchesWitness ==
    /\ last.op = "resolve"
    /\ last.via = "symbolic"
    /\ Lookup(map, QualString) = last.ret
    /\ ~Present(map, KeyStr)

\* C14 (execution mode selection).  While an invocation is inside its runner
\* call exactly one capability is being called, runOnly if and only if
\* preCompilePyTorchModule was read as set, and it is the invocation's only
\* runner call; outside the runner call no capability is being called.
ModeSelection ==
    /\ \A t \in Threads :
          pc[t] = "inv_running" =>
             /\ called[t] \in {"run", "runOnly"}
             /\ (called[t] = "runOnly") <=> preCompile[t]
             /\ runCalls[t] = 1
    /\ \A t \in Threads : pc[t] # "inv_running" => called[t] = "none"

\* An invocation is inside runOnly, the flag being set.
ModeSelectionWitness ==
    \E t \in Threads :
       pc[t] = "inv_running" /\ preCompile[t] /\ called[t] = "runOnly"

\* C15 (overriding disabled).  With overriding disabled no invocation saves
\* a handler, and both handlers are the host's in every state: before,
\* during and after every invocation, failed or not.
HandlersUntouched ==
    ~overrides =>
       /\ sigInt = hostInt
       /\ sigTerm = hostTerm
       /\ \A t \in Threads : oldInt[t] = NullHandler /\ oldTerm[t] = NullHandler

\* With overriding disabled a failed invocation has thrown and the Python
\* handlers are installed.
HandlersUntouchedWitness ==
    /\ ~overrides
    /\ last.op = "invoke"
    /\ last.via = "thrown"
    /\ sigInt = PyIntHandler
    /\ sigTerm = PyTermHandler

\* C16 (resolution agreement).  While runners are installed under the
\* symbolic name and nothing is removed, the Operations returned for the
\* node have all captured the same runner.
ResolutionAgreement == Cardinality(operations) <= 1

\* C17 (handlers restored after concurrent invocations).  With overriding
\* enabled and the host's handlers not the default ones, whenever no
\* invocation is in progress both handlers are the host's.
QuiescentHandlers ==
    (/\ overrides
     /\ hostInt # SigDfl
     /\ hostTerm # SigDfl
     /\ \A t \in Threads : ~Invoking(t)) =>
       (sigInt = hostInt /\ sigTerm = hostTerm)

\* An invocation during which another one ran has ended, none is in
\* progress, and the Python handlers are installed.
QuiescentHandlersWitness ==
    /\ overrides
    /\ last.op = "invoke"
    /\ last.entryInt = NullHandler
    /\ \A t \in Threads : ~Invoking(t)
    /\ hostInt = PyIntHandler
    /\ hostTerm = PyTermHandler
    /\ sigInt = PyIntHandler
    /\ sigTerm = PyTermHandler

\* C18 (builder failure is clean).  The step in which a builder throws
\* leaves the map, and the runners built, as they were; after it the key is
\* absent, the call has returned no runner and the lock is free.  A
\* setGraphRunnerForKey call that finds absent a key for which a builder has
\* thrown calls its own builder, and when that builder returns a runner the
\* call inserts and returns it.
BuilderFailureClean ==
    /\ [](/\ last.via = "threw" =>
                /\ ~Present(map, last.key)
                /\ last.ret = Null
                /\ writer = NoThread
          /\ (last.via = "built" /\ thrown[last.key]) =>
                (last.ret # Null /\ Lookup(map, last.key) = last.ret))
    /\ [][\A t \in Threads :
             /\ (pc[t] = "set_build" /\ last'.via = "threw") =>
                   (map' = map /\ built' = built /\ nextRunner' = nextRunner)
             /\ (/\ pc[t] = "set_cs"
                 /\ pc'[t] # pc[t]
                 /\ thrown[key[t]]
                 /\ ~Present(map, key[t])) => pc'[t] = "set_build"]_vars

\* After a builder threw for the key, a later host call on the same key,
\* made while the key was absent, has built and inserted its runner.
BuilderFailureCleanWitness ==
    /\ last.op = "set"
    /\ last.via = "built"
    /\ thrown[last.key]
    /\ last.seen = Null
    /\ last.valid
    /\ Lookup(map, last.key) = last.ret
    /\ nextRunner = 2

\* C19 (registry operations terminate).  Every registry call that has been
\* made returns.
CallsTerminate ==
    \A t \in Threads : (pc[t] # "idle") ~> (pc[t] = "idle")

\* C19, amended.  Every registry call that has taken the lock, shared or
\* exclusive, returns and releases it, and whenever a call is in progress
\* some call returns: the registry calls never deadlock.
HoldersTerminate ==
    /\ \A t \in Threads :
          (pc[t] \in ReaderPcs \cup WriterPcs) ~>
             (pc[t] = "idle" /\ writer # t /\ t \notin readers)
    /\ (\E t \in Threads : pc[t] # "idle") ~> (last.thread # NoThread)

\* A setGraphRunnerForKey has built its runner and returned while a
\* removeGraphRunnerForKey was waiting for the lock, which is now free.
HoldersTerminateWitness ==
    /\ last.op = "set"
    /\ last.via = "built"
    /\ writer = NoThread
    /\ \E u \in Threads : pc[u] = "rm_wait"

\* C20 (resolved binding is fixed).  An Operation is created only by the
\* return of a key resolution and captures the runner that resolution
\* returned; no step changes or drops the Operations there are, whatever is
\* removed from or inserted into the registry; an invocation is bound to
\* the runner of the Operation invoked from its first step to its last,
\* and the runner it calls is that one, present in the registry or not.
BindingFixed ==
    /\ [](\A t \in Threads :
             /\ Invoking(t) => graphRunner[t] \in operations
             /\ pc[t] = "inv_running" =>
                   (invoked[t] # Null /\ invoked[t] = graphRunner[t]))
    /\ [][/\ operations' # operations =>
                /\ last'.op = "resolve"
                /\ last'.ret # Null
                /\ operations' = operations \cup {last'.ret}
          /\ \A t \in Threads :
                (Invoking(t) /\ pc'[t] \in InvokePcs) =>
                   graphRunner'[t] = graphRunner[t]]_vars

\* An invocation is inside the call of a runner that was removed from the
\* registry, whose key now holds another runner.
BindingFixedWitness ==
    \E t \in Threads :
       /\ pc[t] = "inv_running"
       /\ invoked[t] = graphRunner[t]
       /\ \A k \in Keys : Lookup(map, k) # invoked[t]
       /\ Lookup(map, KeyStr) # Null

====
